---- MODULE Spec2Model ----
(***************************************************************************)
(* Model of the Lumen QI machine-learning backend (src/ml-backend.py):     *)
(* the ZeroMQ REP poll loop of main(), the command handlers of             *)
(* LumenQuantumIntelligence and the modulo-based background optimization.  *)
(*                                                                         *)
(* Time is counted in tenths of a second (the granularity of the idle      *)
(* sleep, time.sleep(0.1)).  Rational numbers (learning rate, efficiency,  *)
(* sentiment, engagement) are pairs <<numerator, denominator>>.            *)
(* A handler runs as one step; an interrupt is delivered between steps.    *)
(* A request's content is drawn when the service receives it: the content  *)
(* of a queued message is not observable before that.                      *)
(***************************************************************************)
EXTENDS Integers, Sequences, FiniteSets, TLC

\* ---------------------------------------------------------------- bounds
MaxRequests == 2      \* requests the clients send in one run
MaxQueue == 2         \* requests queued at the socket at one time
MaxWords == 2         \* words in an interaction text
StartTime == 598      \* wall-clock time (tenths of a second) at start-up
MaxTime == 611        \* the poll loop is followed up to this time
MaxRecords == 3       \* records in a memory store
MaxElapse == 2        \* clock ticks that pass between cleanup passes
MaxPasses == 3        \* cleanup passes in one run

\* ------------------------------------------------------ program constants
IdleSleep == 1                 \* time.sleep(0.1)
BackoffSleep == 10             \* time.sleep(1)
CpuSampleInterval == 10        \* psutil.cpu_percent(interval=1)
Minute == 600                  \* time.time() % 60
TickWindow == 10               \* ... < 1
RetentionWindow == 36000       \* 3600 seconds

VARIABLES
  personality,        \* self.personality: traits, learning_rate, evolution_cycles
  metrics,            \* self.metrics: loss, learning_iterations, hardware_efficiency
  short_term_memory,  \* self.memory_core.short_term_memory: record timestamps
  long_term_memory,   \* self.memory_core.long_term_memory
  gpu_available,      \* HardwareMonitor.gpu_available, fixed at construction
  socket,             \* REP socket: "ready" (may recv), "mustSend", "closed"
  context,            \* zmq context: "open", "terminated"
  pending,            \* requests queued at the socket, not yet received
  sent,               \* requests the clients have sent so far
  received,           \* requests recv_string has returned
  replied,            \* replies send_string has sent
  pc,                 \* position of main()
  message,            \* the request being processed
  response,           \* the response built by the dispatcher
  now,                \* time.time(), in tenths of a second
  fired,              \* background optimizations run in minute firedMinute
  firedMinute,
  call,               \* record of the handler run for the request in flight
  dropped             \* an in-flight request was abandoned by the interrupt

vars == <<personality, metrics, short_term_memory, long_term_memory,
          gpu_available, socket,
          context, pending, sent, received, replied, pc, message, response,
          now, fired, firedMinute, call, dropped>>

\* ------------------------------------------------------------- rationals
Gt(a, b) == a[1] * b[2] > b[1] * a[2]
Lt(a, b) == a[1] * b[2] < b[1] * a[2]

\* ---------------------------------------------------------------- inputs
Learners == <<"tensorflow", "pytorch", "sklearn">>
LearnerSet == {"tensorflow", "pytorch", "sklearn"}
Outcomes == [LearnerSet -> {"ok", "raise"}]

Words == {"love", "hate", "Great"}
RECURSIVE SeqsUpTo(_, _)
SeqsUpTo(S, n) ==
  IF n = 0 THEN {<<>>}
  ELSE LET shorter == SeqsUpTo(S, n - 1)
       IN  shorter \cup {Append(s, w) : s \in {t \in shorter : Len(t) = n - 1}, w \in S}

\* an interaction text: its words and the padding whitespace after them
Texts == [words : SeqsUpTo(Words, MaxWords), pad : {0, 80}]
NotText == [words |-> <<>>, pad |-> -1]       \* None or a non-string payload

CpuLevels == {0, 30, 80, 90}
MemLevels == {0, 40, 85, 100}
GpuLevels == {0, 50, 100}
EmptyInfo == [ok |-> FALSE, cpu_percent |-> 0, memory_percent |-> 0,
              gpu_utilization |-> 0]
\* what psutil / GPUtil deliver to one get_system_info call
Readings ==
  [ok : {TRUE}, cpu_percent : CpuLevels, memory_percent : MemLevels,
   gpu_utilization : GpuLevels, elapsed : {CpuSampleInterval}]
  \cup [ok : {FALSE}, cpu_percent : {0}, memory_percent : {0},
        gpu_utilization : {0}, elapsed : {0, CpuSampleInterval}]

NoMessage == [kind |-> "none", command |-> "none", input_ok |-> FALSE,
              text |-> NotText]
Requests ==
  [kind : {"malformed", "nonobject"}, command : {"none"}, input_ok : {FALSE},
   text : {NotText}]
  \cup [kind : {"object"}, command : {"status", "optimize", "bogus", "missing"},
        input_ok : {FALSE}, text : {NotText}]
  \cup [kind : {"object"}, command : {"adapt"}, input_ok : BOOLEAN,
        text : {NotText}]
  \cup [kind : {"object"}, command : {"evolve"}, input_ok : {FALSE},
        text : Texts \cup {NotText}]


\* ------------------------------------------------- scorers (pure functions)
positive_words == {"love", "great", "awesome", "good", "excellent", "amazing"}
negative_words == {"hate", "bad", "terrible", "awful", "horrible", "worse"}

\* str.lower() on the words the model uses
Lower(w) == IF w = "Great" THEN "great" ELSE w

\* len() of a word
WordLen(w) == IF w = "Great" THEN 5 ELSE 4

RECURSIVE CountIn(_, _)
CountIn(ws, S) ==
  IF ws = <<>> THEN 0
  ELSE (IF Lower(Head(ws)) \in S THEN 1 ELSE 0) + CountIn(Tail(ws), S)

RECURSIVE CharCount(_)
CharCount(ws) ==
  IF ws = <<>> THEN 0 ELSE WordLen(Head(ws)) + CharCount(Tail(ws))

\* len(interaction_data): the words, one blank between two words, the padding
TextLen(text) ==
  CharCount(text.words)
  + (IF Len(text.words) > 1 THEN Len(text.words) - 1 ELSE 0) + text.pad

\* both scorers raise on a payload that is not text
ScorerRaises(text) == text = NotText

analyze_sentiment(text) ==
  LET positive_count == CountIn(text.words, positive_words)
      negative_count == CountIn(text.words, negative_words)
  IN  IF positive_count + negative_count = 0 THEN <<1, 2>>
      ELSE <<positive_count, positive_count + negative_count>>

calculate_engagement(text) ==
  LET n == TextLen(text) IN <<IF n < 100 THEN n ELSE 100, 100>>

\* the trait appended by one evolution, as a sequence of zero or one element
TraitFor(sentiment_score) ==
  IF Gt(sentiment_score, <<7, 10>>) THEN <<"empathetic">>
  ELSE IF Lt(sentiment_score, <<3, 10>>) THEN <<"supportive">>
  ELSE <<>>

AppendTrait_Dedup(traits, extra) ==
  IF extra # <<>> /\ \E i \in 1..Len(traits) : traits[i] = extra[1]
  THEN traits ELSE traits \o extra

AppendTrait(traits, extra) == traits \o extra

LearningRateFor_Inclusive(rate, engagement_level) ==
  IF ~Lt(engagement_level, <<8, 10>>)
  THEN <<rate[1] * 11, rate[2] * 10>> ELSE rate

LearningRateFor(rate, engagement_level) ==
  IF Gt(engagement_level, <<8, 10>>) THEN <<rate[1] * 11, rate[2] * 10>> ELSE rate

EvolutionCycles_Always(cycles, raised) == cycles + 1

EvolutionCycles(cycles, raised) == IF raised THEN cycles ELSE cycles + 1

\* evolve_personality: the personality after the call
evolve_personality(p, text) ==
  IF ScorerRaises(text)
  THEN [p EXCEPT !.evolution_cycles = EvolutionCycles(@, TRUE)]
  ELSE [traits |-> AppendTrait(p.traits, TraitFor(analyze_sentiment(text))),
        learning_rate |-> LearningRateFor(p.learning_rate, calculate_engagement(text)),
        evolution_cycles |-> EvolutionCycles(p.evolution_cycles, FALSE)]

\* ------------------------------------------------------- adaptive learning
\* index of the first step of adaptive_learning that raises: 0 is the input
\* conversion, 1..3 the learners, 4 means none raised
RECURSIVE FirstRaise(_, _, _)
FirstRaise(input_ok, out, i) ==
  IF i = 0 THEN (IF input_ok THEN FirstRaise(input_ok, out, 1) ELSE 0)
  ELSE IF i > Len(Learners) THEN i
  ELSE IF out[Learners[i]] = "raise" THEN i
  ELSE FirstRaise(input_ok, out, i + 1)

InvokedLearners_PerLearnerCatch(input_ok, out) == Learners

\* the learners invoked by one call, in order
InvokedLearners(input_ok, out) ==
  LET k == FirstRaise(input_ok, out, 0)
  IN  SubSeq(Learners, 1, IF k > Len(Learners) THEN Len(Learners) ELSE k)

AdaptSucceeds(input_ok, out) == FirstRaise(input_ok, out, 0) > Len(Learners)

LearningIterations_Always(n, completed) == n + 1

LearningIterations(n, completed) == IF completed THEN n + 1 ELSE n

adaptive_learning(m, input_ok, out) ==
  [m EXCEPT
     !.loss = IF FirstRaise(input_ok, out, 0) > 1 THEN "observed" ELSE @,
     !.learning_iterations = LearningIterations(@, AdaptSucceeds(input_ok, out))]

\* ------------------------------------------------------ hardware handling
\* HardwareMonitor.get_system_info: {} when a probe raises
get_system_info(reading) ==
  IF reading.ok
  THEN [ok |-> TRUE, cpu_percent |-> reading.cpu_percent,
        memory_percent |-> reading.memory_percent,
        gpu_utilization |-> IF gpu_available THEN reading.gpu_utilization ELSE 0]
  ELSE EmptyInfo

calculate_efficiency_HalvedSum(info) ==
  IF gpu_available
  THEN <<300 - info.cpu_percent - info.memory_percent - info.gpu_utilization, 200>>
  ELSE <<200 - info.cpu_percent - info.memory_percent, 200>>

calculate_efficiency_IgnoresGpu(info) ==
  <<200 - info.cpu_percent - info.memory_percent, 200>>

calculate_efficiency(info) ==
  IF gpu_available
  THEN <<300 - info.cpu_percent - info.memory_percent - info.gpu_utilization, 300>>
  ELSE <<200 - info.cpu_percent - info.memory_percent, 200>>

cleanup_old_memories_KeepsEdge(mem, current_time) ==
  SelectSeq(mem, LAMBDA ts : current_time - ts <= RetentionWindow)

cleanup_old_memories_DropsOldest(mem, current_time) ==
  LET kept == SelectSeq(mem, LAMBDA ts : current_time - ts < RetentionWindow)
  IN  IF Len(kept) = Len(mem) /\ mem # <<>> THEN Tail(mem) ELSE kept

cleanup_old_memories(mem, current_time) ==
  SelectSeq(mem, LAMBDA ts : current_time - ts < RetentionWindow)

OptimizeSucceeds_Defaulting(info) == TRUE

\* optimize_hardware_usage raises KeyError on the empty snapshot
OptimizeSucceeds(info) == info.ok

OptimizeSignals_Inclusive(info) ==
  IF ~OptimizeSucceeds(info) THEN {}
  ELSE (IF info.cpu_percent >= 80 THEN {"scale_down"}
        ELSE IF info.cpu_percent <= 30 THEN {"scale_up"} ELSE {})
       \cup (IF info.memory_percent >= 85 THEN {"cleanup"} ELSE {})
       \cup (IF gpu_available /\ info.gpu_utilization <= 50
             THEN {"migrate"} ELSE {})

\* the collaborators one optimize_hardware_usage call reaches:
\* adjust_model_complexity(0.8), adjust_model_complexity(1.2),
\* cleanup_old_memories(), migrate_to_gpu()
OptimizeSignals(info) ==
  IF ~OptimizeSucceeds(info) THEN {}
  ELSE (IF info.cpu_percent > 80 THEN {"scale_down"}
        ELSE IF info.cpu_percent < 30 THEN {"scale_up"} ELSE {})
       \cup (IF info.memory_percent > 85 THEN {"cleanup"} ELSE {})
       \cup (IF gpu_available /\ info.gpu_utilization < 50
             THEN {"migrate"} ELSE {})

MemoryAfterOptimize(mem, info, current_time) ==
  IF "cleanup" \in OptimizeSignals(info)
  THEN cleanup_old_memories(mem, current_time) ELSE mem

MetricsAfterOptimize_Rebuilt(m, info) ==
  IF OptimizeSucceeds(info)
  THEN [loss |-> "initial", learning_iterations |-> 0,
        hardware_efficiency |-> calculate_efficiency(info)]
  ELSE m

MetricsAfterOptimize(m, info) ==
  IF OptimizeSucceeds(info)
  THEN [m EXCEPT !.hardware_efficiency = calculate_efficiency(info)] ELSE m


\* ------------------------------------------------------------ the service
NoCall == [cmd |-> "none", label |-> "none", failed |-> FALSE, personality |-> <<>>,
           metrics |-> <<>>, memory |-> <<>>, input_ok |-> FALSE, out |-> <<>>,
           invoked |-> <<>>, text |-> NotText, info |-> EmptyInfo,
           signals |-> {}, time |-> 0, passes |-> 0, elapsed |-> 0,
           long_memory |-> <<>>]

NoResponse == [keys |-> {}, success |-> FALSE, efficiency |-> <<0, 1>>,
               error |-> "", personality |-> <<>>, metrics |-> <<>>,
               hardware |-> EmptyInfo]

get_status_Fresh(p, m, info) ==
  [NoResponse EXCEPT
     !.keys = {"personality", "metrics", "hardware", "timestamp"},
     !.personality = [p EXCEPT !.evolution_cycles = 0],
     !.metrics = [m EXCEPT !.learning_iterations = 0],
     !.hardware = info]

\* get_status: the dictionary holds the personality and metrics objects
\* themselves and a new hardware snapshot
get_status(p, m, info) ==
  [NoResponse EXCEPT
     !.keys = {"personality", "metrics", "hardware", "timestamp"},
     !.personality = p, !.metrics = m, !.hardware = info]

UnknownResponse_SuccessFlag == [NoResponse EXCEPT !.keys = {"success"}]

\* response = {'error': 'Unknown command'}
UnknownResponse ==
  [NoResponse EXCEPT !.keys = {"error"}, !.error = "Unknown command"]

Init ==
  /\ personality = [traits |-> <<"intuitive", "warm", "cosmic", "protective", "nurturing">>,
                    learning_rate |-> <<1, 1000>>,
                    evolution_cycles |-> 0]
  /\ metrics = [loss |-> "initial", learning_iterations |-> 0,
                hardware_efficiency |-> <<0, 1>>]
  /\ short_term_memory = <<>>
  /\ long_term_memory = <<>>
  /\ gpu_available \in BOOLEAN
  /\ socket = "ready"
  /\ context = "open"
  /\ pending = 0
  /\ sent = 0
  /\ received = 0
  /\ replied = 0
  /\ pc = "recv"
  /\ message = NoMessage
  /\ response = NoResponse
  /\ now = StartTime
  /\ fired = 0
  /\ firedMinute = StartTime \div Minute
  /\ call = NoCall
  /\ dropped = FALSE

state == <<personality, metrics, short_term_memory>>
channel == <<socket, context, pending, sent, received, replied>>
clock == <<now, fired, firedMinute>>

\* a client puts a request on the wire; the service sees it at its next poll
ClientSend ==
  /\ pc = "recv"
  /\ sent < MaxRequests
  /\ pending < MaxQueue
  /\ pending' = pending + 1
  /\ sent' = sent + 1
  /\ UNCHANGED <<state, gpu_available, long_term_memory, socket, context,
                 received, replied, pc, message, response, clock, call,
                 dropped>>

\* the poll loop is followed while the clock is below the horizon
Polling == pc = "recv" /\ now < MaxTime

\* recv_string(NOBLOCK) returns a queued request
RecvMessage ==
  /\ Polling
  /\ socket = "ready"
  /\ pending > 0
  /\ \E m \in Requests : message' = m
  /\ pending' = pending - 1
  /\ received' = received + 1
  /\ socket' = "mustSend"
  /\ pc' = "handle"
  /\ call' = NoCall
  /\ UNCHANGED <<state, gpu_available, long_term_memory, context, sent,
                 replied, response, clock, dropped>>

\* recv_string(NOBLOCK) raises zmq.Again: nothing queued
RecvAgain ==
  /\ Polling
  /\ socket = "ready"
  /\ pending = 0
  /\ pc' = "idle"
  /\ call' = NoCall
  /\ UNCHANGED <<state, gpu_available, long_term_memory, channel, message,
                 response, clock, dropped>>

\* recv_string on a REP socket that still owes a reply raises ZMQError (EFSM),
\* which is not zmq.Again and lands in `except Exception`
RecvWrongState ==
  /\ Polling
  /\ socket = "mustSend"
  /\ pc' = "backoff"
  /\ call' = NoCall
  /\ UNCHANGED <<state, gpu_available, long_term_memory, channel, message,
                 response, clock, dropped>>

\* json.loads raises on malformed text, data.get raises on a non-object
ParseError ==
  /\ pc = "handle"
  /\ message.kind \in {"malformed", "nonobject"}
  /\ pc' = "backoff"
  /\ call' = [NoCall EXCEPT !.cmd = "unparsed", !.failed = TRUE]
  /\ message' = NoMessage
  /\ UNCHANGED <<state, gpu_available, long_term_memory, channel, response,
                 clock, dropped>>

Dispatching(cmds) ==
  /\ pc = "handle"
  /\ message.kind = "object"
  /\ message.command \in cmds

HandleStatus ==
  /\ Dispatching({"status"})
  /\ \E reading \in Readings :
       /\ now' = now + reading.elapsed
       /\ call' = [NoCall EXCEPT !.cmd = "status", !.label = message.command, !.personality = personality,
                                 !.metrics = metrics,
                                 !.memory = short_term_memory,
                                 !.info = get_system_info(reading)]
       /\ response' = get_status(personality, metrics, get_system_info(reading))
  /\ pc' = "send"
  /\ message' = NoMessage
  /\ UNCHANGED <<state, gpu_available, long_term_memory, channel, fired,
                 firedMinute, dropped>>

HandleAdapt ==
  /\ Dispatching({"adapt"})
  /\ \E out \in Outcomes :
       /\ metrics' = adaptive_learning(metrics, message.input_ok, out)
       /\ call' = [NoCall EXCEPT
                     !.cmd = "adapt", !.label = message.command, !.personality = personality,
                     !.metrics = metrics, !.memory = short_term_memory,
                     !.input_ok = message.input_ok,
                     !.out = out,
                     !.invoked = InvokedLearners(message.input_ok, out),
                     !.failed = ~AdaptSucceeds(message.input_ok, out)]
       /\ response' = [NoResponse EXCEPT
                         !.keys = {"success", "metrics"},
                         !.success = AdaptSucceeds(message.input_ok, out)]
  /\ pc' = "send"
  /\ message' = NoMessage
  /\ UNCHANGED <<personality, short_term_memory, gpu_available,
                 long_term_memory, channel, clock, dropped>>

HandleEvolve ==
  /\ Dispatching({"evolve"})
  /\ personality' = evolve_personality(personality, message.text)
  /\ call' = [NoCall EXCEPT
                !.cmd = "evolve", !.label = message.command, !.personality = personality,
                !.metrics = metrics, !.memory = short_term_memory,
                !.text = message.text,
                !.failed = ScorerRaises(message.text)]
  /\ response' = [NoResponse EXCEPT
                    !.keys = {"success", "personality"},
                    !.success = ~ScorerRaises(message.text)]
  /\ pc' = "send"
  /\ message' = NoMessage
  /\ UNCHANGED <<metrics, short_term_memory, gpu_available, long_term_memory,
                 channel, clock, dropped>>

HandleOptimize ==
  /\ Dispatching({"optimize"})
  /\ \E reading \in Readings :
       LET info == get_system_info(reading) IN
       /\ now' = now + reading.elapsed
       /\ metrics' = MetricsAfterOptimize(metrics, info)
       /\ short_term_memory' =
            MemoryAfterOptimize(short_term_memory, info, now + reading.elapsed)
       /\ call' = [NoCall EXCEPT
                     !.cmd = "optimize", !.label = message.command, !.personality = personality,
                     !.metrics = metrics, !.memory = short_term_memory,
                     !.info = info, !.signals = OptimizeSignals(info),
                     !.failed = ~OptimizeSucceeds(info)]
       /\ response' = [NoResponse EXCEPT
                         !.keys = {"success", "efficiency"},
                         !.success = OptimizeSucceeds(info),
                         !.efficiency =
                            MetricsAfterOptimize(metrics, info).hardware_efficiency]
  /\ pc' = "send"
  /\ message' = NoMessage
  /\ UNCHANGED <<personality, gpu_available, long_term_memory, channel, fired,
                 firedMinute, dropped>>

HandleUnknown ==
  /\ Dispatching({"bogus", "missing"})
  /\ call' = [NoCall EXCEPT !.cmd = "unknown", !.label = message.command, !.personality = personality,
                            !.metrics = metrics, !.memory = short_term_memory,
                            !.failed = TRUE]
  /\ response' = UnknownResponse
  /\ pc' = "send"
  /\ message' = NoMessage
  /\ UNCHANGED <<state, gpu_available, long_term_memory, channel, clock,
                 dropped>>

\* socket.send_string(json.dumps(response))
Send ==
  /\ pc = "send"
  /\ socket' = "ready"
  /\ replied' = replied + 1
  /\ pc' = "recv"
  /\ call' = NoCall
  /\ response' = NoResponse
  /\ UNCHANGED <<state, gpu_available, long_term_memory, context, pending,
                 sent, received, message, clock, dropped>>

\* time.sleep(0.1) in the zmq.Again branch
Idle ==
  /\ pc = "idle"
  /\ now' = now + IdleSleep
  /\ pc' = "tick"
  /\ UNCHANGED <<state, gpu_available, long_term_memory, channel, message,
                 response, fired, firedMinute, call, dropped>>

InAgainBranch_OwnThread == pc \in {"tick", "send"}

\* the branch of main() in which the periodic optimization is reachable
InAgainBranch == pc = "tick"

\* time.time() % 60 < 1
TickDue == now % Minute < TickWindow

TickSkip ==
  /\ InAgainBranch
  /\ ~TickDue
  /\ pc' = "recv"
  /\ UNCHANGED <<state, gpu_available, long_term_memory, channel, message,
                 response, clock, call, dropped>>

\* lumen.optimize_hardware_usage() from the poll loop; its result is dropped
BackgroundOptimize ==
  /\ InAgainBranch
  /\ TickDue
  /\ \E reading \in Readings :
       LET info == get_system_info(reading) IN
       /\ now' = now + reading.elapsed
       /\ metrics' = MetricsAfterOptimize(metrics, info)
       /\ short_term_memory' =
            MemoryAfterOptimize(short_term_memory, info, now + reading.elapsed)
       /\ call' = [NoCall EXCEPT
                     !.cmd = "background", !.personality = personality,
                     !.metrics = metrics, !.memory = short_term_memory,
                     !.info = info, !.signals = OptimizeSignals(info)]
  /\ fired' = IF firedMinute = now \div Minute THEN fired + 1 ELSE 1
  /\ firedMinute' = now \div Minute
  /\ pc' = "recv"
  /\ UNCHANGED <<personality, gpu_available, long_term_memory, channel,
                 message, response, dropped>>

\* print and time.sleep(1) in `except Exception`
Backoff ==
  /\ pc = "backoff"
  /\ now' = now + BackoffSleep
  /\ pc' = "recv"
  /\ call' = NoCall
  /\ UNCHANGED <<state, gpu_available, long_term_memory, channel, message,
                 response, fired, firedMinute, dropped>>

\* positions of main() inside the try body, where `except KeyboardInterrupt`
\* of the same try statement catches the interrupt
InTryBody == pc \in {"recv", "handle", "send"}

\* positions inside an except clause: an exception raised there is not
\* handled by the sibling clauses and leaves main()
InExceptClause == pc \in {"idle", "tick", "backoff"}

InterruptCaught ==
  /\ InTryBody
  /\ pc' = "shutdown"
  /\ dropped' = (pc \in {"handle", "send"})
  /\ message' = NoMessage
  /\ response' = NoResponse
  /\ call' = NoCall
  /\ UNCHANGED <<state, gpu_available, long_term_memory, channel, clock>>

InterruptEscapes ==
  /\ InExceptClause
  /\ pc' = "crashed"
  /\ call' = NoCall
  /\ UNCHANGED <<state, gpu_available, long_term_memory, channel, message,
                 response, clock, dropped>>

\* break, then socket.close()
Close ==
  /\ pc = "shutdown"
  /\ socket' = "closed"
  /\ pc' = "closing"
  /\ UNCHANGED <<state, gpu_available, long_term_memory, context, pending,
                 sent, received, replied, message, response, clock, call,
                 dropped>>

\* context.term()
Term ==
  /\ pc = "closing"
  /\ context' = "terminated"
  /\ pc' = "done"
  /\ UNCHANGED <<state, gpu_available, long_term_memory, socket, pending,
                 sent, received, replied, message, response, clock, call,
                 dropped>>

Next ==
  \/ ClientSend
  \/ RecvMessage
  \/ RecvAgain
  \/ RecvWrongState
  \/ ParseError
  \/ HandleStatus
  \/ HandleAdapt
  \/ HandleEvolve
  \/ HandleOptimize
  \/ HandleUnknown
  \/ Send
  \/ Idle
  \/ TickSkip
  \/ BackgroundOptimize
  \/ Backoff
  \/ InterruptCaught
  \/ InterruptEscapes
  \/ Close
  \/ Term

Spec == Init /\ [][Next]_vars

\* ------------------------------------------- MemoryCore used on its own
\* A record is modelled by its timestamp; mem.get('timestamp', 0) makes a
\* record without one count as timestamp 0.
CleanupStart == RetentionWindow
Timestamps == {0, 1, 2, RetentionWindow}

InitMemory ==
  /\ personality = [traits |-> <<"intuitive", "warm", "cosmic", "protective", "nurturing">>,
                    learning_rate |-> <<1, 1000>>,
                    evolution_cycles |-> 0]
  /\ metrics = [loss |-> "initial", learning_iterations |-> 0,
                hardware_efficiency |-> <<0, 1>>]
  /\ short_term_memory \in SeqsUpTo(Timestamps, MaxRecords)
  /\ long_term_memory \in {<<>>, <<0>>}
  /\ gpu_available = FALSE
  /\ socket = "ready"
  /\ context = "open"
  /\ pending = 0
  /\ sent = 0
  /\ received = 0
  /\ replied = 0
  /\ pc = "memory"
  /\ message = NoMessage
  /\ response = NoResponse
  /\ now = CleanupStart
  /\ fired = 0
  /\ firedMinute = CleanupStart \div Minute
  /\ call = NoCall
  /\ dropped = FALSE

\* memory_core.cleanup_old_memories()
Cleanup ==
  /\ pc = "memory"
  /\ call.passes < MaxPasses
  /\ short_term_memory' = cleanup_old_memories(short_term_memory, now)
  /\ call' = [NoCall EXCEPT
                !.cmd = "cleanup", !.memory = short_term_memory,
                !.long_memory = long_term_memory, !.time = now,
                !.passes = call.passes + 1,
                !.elapsed = IF call.passes = 0 THEN 0 ELSE now - call.time]
  /\ UNCHANGED <<personality, metrics, long_term_memory, gpu_available,
                 channel, pc, message, response, clock, dropped>>

\* time passes between two calls; no record is added
Elapse ==
  /\ pc = "memory"
  /\ now < CleanupStart + MaxElapse
  /\ now' = now + 1
  /\ UNCHANGED <<state, long_term_memory, gpu_available, channel, pc, message,
                 response, fired, firedMinute, call, dropped>>

NextMemory ==
  \/ Cleanup
  \/ Elapse

SpecMemory == InitMemory /\ [][NextMemory]_vars

TypeOK ==
  /\ pc \in {"recv", "handle", "send", "idle", "tick", "backoff", "shutdown",
             "closing", "done", "crashed"}
  /\ socket \in {"ready", "mustSend", "closed"}
  /\ replied <= received /\ received <= sent /\ sent <= MaxRequests


\* ----------------------------------------------------------------- claims
AdaptReturned == pc = "send" /\ call.cmd = "adapt"
EvolveReturned == pc = "send" /\ call.cmd = "evolve"
AllLearnersOk(c) == c.input_ok /\ \A l \in LearnerSet : c.out[l] = "ok"

\* C1 (as stated): every adapt command increases learning_iterations by
\* exactly 1, also when a learner raises.
C1_EveryAdaptCounts ==
  AdaptReturned =>
    metrics.learning_iterations = call.metrics.learning_iterations + 1

\* C1 (amended): an adapt command increases learning_iterations by exactly 1
\* when the input conversion and all three learners complete without raising,
\* and leaves it unchanged when any of them raises.
C1_AdaptCountsCompletedIterations ==
  AdaptReturned =>
    metrics.learning_iterations =
      call.metrics.learning_iterations + (IF AllLearnersOk(call) THEN 1 ELSE 0)

C1_Witness ==
  /\ AdaptReturned
  /\ call.input_ok
  /\ call.out["tensorflow"] = "ok"
  /\ call.out["pytorch"] = "raise"
  /\ call.metrics.learning_iterations = 1
  /\ metrics.learning_iterations = 1

\* C2 (as stated): within one adapt call every learner is invoked once, a
\* learner's failure does not keep the later learners from being invoked, and
\* the call reports success when at least one learner succeeded.
C2_FailuresIsolatedPerLearner ==
  AdaptReturned =>
    /\ call.invoked = Learners
    /\ (\E l \in LearnerSet : call.out[l] = "ok") => response.success

\* C2 (amended): within one adapt call the learners are invoked in the order
\* TensorFlow, PyTorch, sklearn, each at most once, and a learner is invoked
\* only if the input conversion and every learner before it completed without
\* raising (the first failure aborts the call); the call reports success iff
\* the conversion and all three learners succeeded.
C2_FirstFailureAbortsCall ==
  AdaptReturned =>
    /\ Len(call.invoked) <= Len(Learners)
    /\ \A i \in 1..Len(Learners) :
         (i <= Len(call.invoked)) <=>
            (call.input_ok /\ \A j \in 1..(i - 1) : call.out[Learners[j]] = "ok")
    /\ \A i \in 1..Len(call.invoked) : call.invoked[i] = Learners[i]
    /\ response.success <=> AllLearnersOk(call)

C2_Witness ==
  /\ AdaptReturned
  /\ call.input_ok
  /\ call.out["tensorflow"] = "raise"
  /\ call.out["pytorch"] = "ok"
  /\ call.out["sklearn"] = "ok"
  /\ call.invoked = <<"tensorflow">>
  /\ ~response.success

\* C3 (as stated): every evolve command increases evolution_cycles by exactly
\* 1, also when a scorer fails.
C3_EveryEvolveCounts ==
  EvolveReturned =>
    personality.evolution_cycles = call.personality.evolution_cycles + 1

\* C3 (amended): an evolve command increases evolution_cycles by exactly 1,
\* whichever trait and learning-rate branches fire, when both scorers return;
\* when a scorer raises (interaction_data missing or not text) the counter is
\* unchanged and the reply reports success = false.
C3_EvolveCountsScoredCalls ==
  EvolveReturned =>
    /\ personality.evolution_cycles =
         call.personality.evolution_cycles + (IF call.text = NotText THEN 0 ELSE 1)
    /\ response.success <=> call.text # NotText

C3_Witness ==
  /\ EvolveReturned
  /\ call.text = NotText
  /\ call.personality.evolution_cycles = 1
  /\ personality.evolution_cycles = 1

\* C4: an evolve call appends exactly one "empathetic" iff sentiment > 0.7,
\* exactly one "supportive" iff sentiment < 0.3, never both and nothing
\* otherwise; the traits present before the call stay, in the same order.
C4_TraitsAppendedBySentiment ==
  EvolveReturned =>
    LET before == call.personality.traits
        after == personality.traits
        scored == call.text # NotText
        s == analyze_sentiment(call.text)
        added(t) == Len(after) = Len(before) + 1 /\ after[Len(after)] = t
    IN  /\ Len(after) \in {Len(before), Len(before) + 1}
        /\ SubSeq(after, 1, Len(before)) = before
        /\ added("empathetic") <=> (scored /\ s[1] * 10 > 7 * s[2])
        /\ added("supportive") <=> (scored /\ s[1] * 10 < 3 * s[2])
        /\ (Len(after) = Len(before)) <=>
             (~scored \/ (s[1] * 10 >= 3 * s[2] /\ s[1] * 10 <= 7 * s[2]))

C4_Witness ==
  /\ EvolveReturned
  /\ personality.traits = call.personality.traits \o <<"empathetic">>
  /\ \E i \in 1..Len(call.personality.traits) :
        call.personality.traits[i] = "empathetic"

\* C5: whenever the service is about to receive a request, every request it
\* received before has been answered with exactly one reply.
C5_RequestThenReply == (pc = "recv") => replied = received

\* C6: a failed request-triggered operation is answered with a reply that
\* carries an `error` field; no message is sent without a request.
C6_FailuresCarryError ==
  /\ call.failed => (pc = "send" /\ "error" \in response.keys)
  /\ replied <= received

\* C7: whenever the poll loop resumes, the socket is able to receive: no
\* request leaves the channel in a state where every later receive fails.
C7_LoopResumesReceiving == (pc = "recv") => socket = "ready"

ProcessEnded == pc \in {"done", "crashed"}

\* C8: when the process ends after an interrupt, the in-flight command was
\* completed and answered, the socket is closed and the context terminated.
C8_CooperativeShutdown ==
  ProcessEnded => (socket = "closed" /\ context = "terminated" /\ ~dropped)

\* C9: the shared state is changed only by the handler of the one request in
\* flight or by the background tick while no request is in flight; a request
\* is received only when every earlier one was answered; nothing changes the
\* state between a handler's return (the status capture) and the reply.
C9_MutualExclusion ==
  [][ /\ (state' # state) =>
           \/ (pc = "handle" /\ pc' = "send" /\ received = replied + 1)
           \/ (pc = "tick" /\ socket = "ready" /\ received = replied)
      /\ (fired' # fired) => (socket = "ready" /\ received = replied)
      /\ (received' # received) => (received = replied /\ pc = "recv")
      /\ (pc = "send") => state' = state
      /\ (pc = "send" /\ call.cmd = "status") =>
           (personality = call.personality /\ metrics = call.metrics)
    ]_vars

C9_Witness ==
  /\ pc = "send"
  /\ call.cmd = "status"
  /\ fired > 0
  /\ metrics.hardware_efficiency # <<0, 1>>
  /\ personality.evolution_cycles > 0

Running == pc \notin {"shutdown", "closing", "done", "crashed"}

\* C10: the background optimization runs once per wall-clock minute: never
\* more than once in a minute, and, once the trigger window of a minute that
\* began while the service was running has passed with every received request
\* answered, exactly once in that minute (the trigger fires nowhere else in
\* the minute).
C10_OncePerMinute ==
  /\ fired <= 1
  /\ (Running /\ received = replied
        /\ StartTime <= (now \div Minute) * Minute
        /\ now % Minute >= TickWindow)
       => (firedMinute = now \div Minute /\ fired = 1)


KnownCommands == {"status", "adapt", "evolve", "optimize"}
Replying == pc = "send"
StateAsBefore ==
  /\ personality = call.personality
  /\ metrics = call.metrics
  /\ short_term_memory = call.memory

\* C11: a request whose command label is none of status, adapt, evolve,
\* optimize (a missing label included) is answered with
\* {"error": "Unknown command"} and leaves Metrics, PersonalityState and the
\* memory store as they were; no request with a known label gets that reply.
C11_UnknownCommandRejected ==
  Replying =>
    /\ (call.label \notin KnownCommands) =>
          /\ response.keys = {"error"}
          /\ response.error = "Unknown command"
          /\ StateAsBefore
    /\ (call.label \in KnownCommands) => "error" \notin response.keys

C11_Witness ==
  /\ Replying
  /\ call.label = "missing"
  /\ response.error = "Unknown command"
  /\ metrics.learning_iterations = 1
  /\ metrics.learning_iterations = call.metrics.learning_iterations

DefaultTraits == <<"intuitive", "warm", "cosmic", "protective", "nurturing">>

\* C12: a status command always produces a reply with the personality, the
\* metrics and a hardware entry (an empty one when the snapshot fails) and no
\* error; it leaves PersonalityState, Metrics and the memory store as they
\* were, the reply carries their current values, and the first request of a
\* run, when it is a status, reports the default traits, evolution_cycles = 0
\* and learning_iterations = 0.
C12_StatusReadsOnly ==
  (Replying /\ call.label = "status") =>
    /\ response.keys = {"personality", "metrics", "hardware", "timestamp"}
    /\ StateAsBefore
    /\ response.personality = personality
    /\ response.metrics = metrics
    /\ response.hardware = call.info
    /\ (received = 1) =>
          /\ response.personality.traits = DefaultTraits
          /\ response.personality.evolution_cycles = 0
          /\ response.metrics.learning_iterations = 0

C12_Witness ==
  /\ Replying
  /\ call.label = "status"
  /\ ~call.info.ok
  /\ received = 2
  /\ response.personality.evolution_cycles = 1
  /\ response.personality.traits # DefaultTraits


OptimizeRan == call.cmd \in {"optimize", "background"}

\* C13: when the hardware snapshot cannot be acquired, an optimize run
\* (request-triggered or background) changes nothing: hardware_efficiency and
\* the rest of Metrics, the personality and the memory store keep their
\* values, no cleanup runs and no complexity or migration signal is emitted;
\* the request-triggered run replies success = false with the old efficiency.
C13_FailedSnapshotAborts ==
  (OptimizeRan /\ ~call.info.ok) =>
    /\ StateAsBefore
    /\ call.signals = {}
    /\ (call.cmd = "optimize") =>
          /\ Replying
          /\ ~response.success
          /\ response.efficiency = call.metrics.hardware_efficiency

C13_Witness ==
  /\ call.cmd = "background"
  /\ ~call.info.ok
  /\ metrics.hardware_efficiency # <<0, 1>>
  /\ metrics.hardware_efficiency = call.metrics.hardware_efficiency


\* C14: Metrics.hardware_efficiency is within [0, 1] in every reachable
\* state, for snapshots whose percentages lie in 0..100.
C14_EfficiencyInUnitInterval ==
  /\ metrics.hardware_efficiency[2] > 0
  /\ metrics.hardware_efficiency[1] >= 0
  /\ metrics.hardware_efficiency[1] <= metrics.hardware_efficiency[2]

C14_Witness ==
  /\ OptimizeRan
  /\ call.info.ok
  /\ gpu_available
  /\ call.info.cpu_percent = 0
  /\ call.info.memory_percent = 0
  /\ call.info.gpu_utilization = 0
  /\ metrics.hardware_efficiency[1] = metrics.hardware_efficiency[2]

CleanupRan == call.cmd = "cleanup"

\* the records of a store that are younger than the retention window at
\* time t, in their order
RECURSIVE Younger(_, _)
Younger(mem, t) ==
  IF mem = <<>> THEN <<>>
  ELSE IF t - Head(mem) >= RetentionWindow THEN Younger(Tail(mem), t)
  ELSE <<Head(mem)>> \o Younger(Tail(mem), t)

\* C16: after a cleanup pass the short-term store holds no record whose age
\* is greater than or equal to the retention window (a record whose age
\* equals the window is evicted); the strictly younger records are all kept,
\* in their order; the long-term store is as it was.
C16_CleanupEvictsAtWindow ==
  CleanupRan =>
    /\ \A i \in 1..Len(short_term_memory) :
          call.time - short_term_memory[i] < RetentionWindow
    /\ short_term_memory = Younger(call.memory, call.time)
    /\ long_term_memory = call.long_memory

C16_Witness ==
  /\ CleanupRan
  /\ call.memory = <<1, 0, 2>>
  /\ call.time = RetentionWindow
  /\ short_term_memory = <<1, 2>>
  /\ long_term_memory = <<0>>


SecondPass == CleanupRan /\ call.passes >= 2

\* C17 (as stated): two consecutive cleanup calls with no record added in
\* between leave identical short-term contents: the second call removes
\* nothing.
C17_CleanupIdempotent == SecondPass => short_term_memory = call.memory

\* C17 (amended): a cleanup call that follows another with no record added in
\* between removes nothing when the clock has not advanced between the two
\* calls, or more generally when no kept record has reached the retention
\* age by the second call; it never adds or reorders records.  (Each call
\* reads the clock anew, so a record kept by the first call is evicted by the
\* second once its age reaches the window.)
C17_CleanupIdempotentWhileYoung ==
  SecondPass =>
    /\ (call.elapsed = 0 \/ \A i \in 1..Len(call.memory) :
                               call.time - call.memory[i] < RetentionWindow)
          => short_term_memory = call.memory
    /\ Len(short_term_memory) <= Len(call.memory)
    /\ \A i \in 1..Len(short_term_memory) :
          \E j \in i..Len(call.memory) : call.memory[j] = short_term_memory[i]

C17_Witness ==
  /\ SecondPass
  /\ call.elapsed = 0
  /\ call.memory = <<1, 2>>
  /\ short_term_memory = <<1, 2>>


HandlerStep(cmd) ==
  /\ pc = "handle"
  /\ pc' = "send"
  /\ message.kind = "object"
  /\ message.command = cmd

\* C19: learning_iterations and evolution_cycles never decrease; a step
\* changes learning_iterations only if it is the handling of an adapt
\* command and evolution_cycles only if it is the handling of an evolve
\* command, each by exactly +1; status, optimize, unknown commands and
\* background ticks leave both as they are.
C19_CountersMonotonic ==
  [][ /\ metrics'.learning_iterations \in
           {metrics.learning_iterations, metrics.learning_iterations + 1}
      /\ personality'.evolution_cycles \in
           {personality.evolution_cycles, personality.evolution_cycles + 1}
      /\ (metrics'.learning_iterations # metrics.learning_iterations)
           => HandlerStep("adapt")
      /\ (personality'.evolution_cycles # personality.evolution_cycles)
           => HandlerStep("evolve")
    ]_vars

C19_Witness ==
  /\ metrics.learning_iterations = 1
  /\ personality.evolution_cycles = 1
  /\ fired > 0
  /\ metrics.hardware_efficiency # <<0, 1>>
  /\ pc = "recv"

\* min(len(interaction_data) / 100, 1.0) > 0.8
Engaged(text) ==
  text # NotText /\ (TextLen(text) >= 100 \/ TextLen(text) * 10 > 8 * 100)

\* C20: learning_rate starts at 0.001, is positive in every state and never
\* decreases; a step changes it only if it is the handling of an evolve
\* command whose engagement is > 0.8, and every such step multiplies it by
\* 1.1 once, whatever the sentiment; no other step changes it.
C20_LearningRateGrowsByEngagement ==
  /\ personality.learning_rate = <<1, 1000>>
  /\ [][ LET rate == personality.learning_rate
             next == personality'.learning_rate
         IN  /\ next[1] > 0 /\ next[2] > 0
             /\ next[1] * rate[2] >= rate[1] * next[2]
             /\ (next # rate) =>
                   (HandlerStep("evolve") /\ Engaged(message.text))
             /\ (HandlerStep("evolve") /\ Engaged(message.text)) =>
                   next = <<rate[1] * 11, rate[2] * 10>>
       ]_vars

C20_Witness ==
  /\ personality.learning_rate = <<121, 100000>>
  /\ personality.traits = DefaultTraits \o <<"supportive">>
  /\ personality.evolution_cycles = 2

====
